---- MODULE Spec2Model ----
(***************************************************************************)
(* Weather gateway (src/server.js): an Express REST surface and an MCP     *)
(* tool/resource surface over the National Weather Service API.            *)
(*                                                                         *)
(* Strings are sequences of one-character strings, so that toUpperCase,    *)
(* toFixed and template-literal concatenation are computed, not assumed.   *)
(* A template literal is the concatenation of its pieces; a fixed piece    *)
(* (such as "/points/") is kept as one token.                              *)
(***************************************************************************)
EXTENDS Integers, Sequences, FiniteSets, TLC

VARIABLES reqs

vars == <<reqs>>

(***************************************************************************)
(* Bounds and program constants.                                           *)
(***************************************************************************)
\* number of request slots of the concurrent specification
MaxInFlight == 2

\* latitude.toFixed(4), longitude.toFixed(4)
FixedDigits == 4

\* z.number().min(-90).max(90)
LatMin == -90
LatMax == 90
\* z.number().min(-180).max(180)
LonMin == -180
LonMax == 180
\* z.string().length(2)
StateLen == 2

\* res.status(400), res.status(500); res.json defaults to 200
HttpOk == 200
HttpBadRequest == 400
HttpServerError == 500

NWS_API_BASE == "https://api.weather.gov"

(***************************************************************************)
(* Characters and strings.                                                 *)
(***************************************************************************)
DigitChars == <<"0", "1", "2", "3", "4", "5", "6", "7", "8", "9">>

IsDigit(c) == \E d \in 1..10 : DigitChars[d] = c

DigitVal(c) == (CHOOSE d \in 1..10 : DigitChars[d] = c) - 1

DigitChar(d) == DigitChars[d + 1]

LowerChars == <<"a", "c", "l", "n", "y">>
UpperChars == <<"A", "C", "L", "N", "Y">>

\* String.prototype.toUpperCase, one character
ToUpperChar(c) ==
    IF \E i \in 1..Len(LowerChars) : LowerChars[i] = c
    THEN UpperChars[CHOOSE i \in 1..Len(LowerChars) : LowerChars[i] = c]
    ELSE c

\* a plausible slip: the region passed through as given
ToUpperCaseIdentity(s) == s

\* String.prototype.toUpperCase
ToUpperCase(s) == [i \in 1..Len(s) |-> ToUpperChar(s[i])]

RECURSIVE Pow10(_)
Pow10(n) == IF n = 0 THEN 1 ELSE 10 * Pow10(n - 1)

\* the value of a sequence of digit characters
RECURSIVE IntOf(_)
IntOf(ds) ==
    IF ds = <<>> THEN 0
    ELSE 10 * IntOf(SubSeq(ds, 1, Len(ds) - 1)) + DigitVal(ds[Len(ds)])

\* the decimal digits of a natural number
RECURSIVE NatStr(_)
NatStr(n) ==
    IF n < 10 THEN <<DigitChar(n)>>
    ELSE NatStr(n \div 10) \o <<DigitChar(n % 10)>>

\* the decimal digits of n, left-padded with zeros to width w
RECURSIVE PadStr(_, _)
PadStr(n, w) ==
    IF w = 0 THEN <<>>
    ELSE PadStr(n \div 10, w - 1) \o <<DigitChar(n % 10)>>

(***************************************************************************)
(* JavaScript numbers, as far as the handlers use them: a sign, an integer *)
(* part and the fraction digits of the shortest decimal form (no trailing  *)
(* zeros).                                                                 *)
(***************************************************************************)
Num(neg, ip, frac) == [neg |-> neg, ip |-> ip, frac |-> frac]

\* the first w digits of a fraction, as an integer (right-padded with zeros)
FracHead(frac, w) ==
    IntOf([i \in 1..w |-> IF i <= Len(frac) THEN frac[i] ELSE "0"])

\* `${n}` of a number: its shortest decimal form
NumToString(n) ==
    (IF n.neg THEN <<"-">> ELSE <<>>) \o NatStr(n.ip)
      \o (IF n.frac = <<>> THEN <<>> ELSE <<".">> \o n.frac)

\* Number.prototype.toFixed(digits): round to nearest, sign kept, exactly
\* `digits` fraction digits.  (Inputs whose digit after the last kept one is
\* a lone 5 are not drawn: there the binary value decides the rounding.)
ToFixed(n, digits) ==
    LET up     == IF Len(n.frac) > digits /\ DigitVal(n.frac[digits + 1]) >= 5
                  THEN 1 ELSE 0
        scaled == n.ip * Pow10(digits) + FracHead(n.frac, digits) + up
    IN  (IF n.neg THEN <<"-">> ELSE <<>>)
          \o NatStr(scaled \div Pow10(digits))
          \o <<".">> \o PadStr(scaled % Pow10(digits), digits)

\* n <= k and n >= k for an integer k
NumLeq(n, k) ==
    IF n.neg THEN n.ip >= -k
    ELSE n.ip < k \/ (n.ip = k /\ n.frac = <<>>)

NumGeq(n, k) ==
    IF n.neg THEN n.ip < -k \/ (n.ip = -k /\ n.frac = <<>>)
    ELSE n.ip >= k

(***************************************************************************)
(* Upstream documents and the fetch primitive.                             *)
(***************************************************************************)
\* a URL or a message: a sequence of string pieces
NoText == <<>>

\* a JSON document of the upstream, as far as the handlers read it:
\* features (alerts collection) and properties.forecast (grid lookup)
Doc(kind, features, forecast) ==
    [kind |-> kind, features |-> features, forecast |-> forecast]

NoDoc == Doc("none", "absent", NoText)

AlertDocs == {Doc("alerts", f, NoText) : f \in {"absent", "empty", "some"}}

Locators == {<<"https://api.weather.gov/gridpoints/OKX/33,35/forecast">>,
             <<"https://api.weather.gov/gridpoints/LOX/154,44/forecast">>}

\* a grid lookup document with or without properties.forecast
PointDocs == {Doc("points", "absent", l) : l \in Locators \cup {NoText}}

ForecastDocs == {Doc("forecast", "absent", NoText)}

\* what fetch() and response.json() can do: the transport fails, the status
\* is not ok, the body does not parse, or a document arrives
Wire(kind, doc) == [kind |-> kind, doc |-> doc]

FailureKinds == {"network", "status", "body"}

Upstream(docs, failures) ==
    {Wire(k, NoDoc) : k \in failures} \cup {Wire("ok", d) : d \in docs}

\* the value makeNWSRequest resolves to: null or the parsed document
Null == [ok |-> FALSE, doc |-> NoDoc]

Json(doc) == [ok |-> TRUE, doc |-> doc]

\* a plausible slip: response.ok is not looked at, the body is returned
MakeNWSRequestNoStatusCheck(w) ==
    IF w.kind \in {"network", "body"} THEN Null ELSE Json(w.doc)

\* makeNWSRequest: every throw inside the try is caught and becomes null
MakeNWSRequest(w) ==
    IF w.kind = "network" THEN Null
    ELSE IF w.kind = "status" THEN Null
    ELSE IF w.kind = "body" THEN Null
    ELSE Json(w.doc)

\* a plausible slip: the null check is left out
FalsyNever(data) == FALSE

\* !alertsData, !pointsData, !forecastData, !data
Falsy(data) == ~data.ok

\* a plausible slip: a locator taken from whichever request holds one
SharedForecastLocator(data) ==
    LET holders == {q \in DOMAIN reqs :
                      /\ reqs[q].op = "forecast"
                      /\ Len(reqs[q].resps) >= 1
                      /\ reqs[q].resps[1].doc.forecast # NoText}
    IN  IF holders = {} THEN data.doc.forecast
        ELSE reqs[CHOOSE q \in holders : \A p \in holders : q <= p]
                 .resps[1].doc.forecast

\* pointsData.properties?.forecast (undefined is the empty text)
ForecastLocator(data) == data.doc.forecast

\* a plausible slip: the locator's presence is not checked
NoLocatorNever(url) == FALSE

\* !forecastUrl
NoLocator(url) == url = NoText

\* alertsData.features || [] , then features.length === 0
NoFeatures(data) == data.doc.features \in {"absent", "empty"}

(***************************************************************************)
(* Request parameters.                                                     *)
(***************************************************************************)
\* a query or URI parameter: undefined/null, or a string (possibly empty)
Param(present, text) == [present |-> present, text |-> text]

NoParam == Param(FALSE, NoText)

Given(text) == Param(TRUE, text)

\* a plausible slip: only an absent parameter counts as missing
MissingOnlyAbsent(p) == ~p.present

\* !latitude, !longitude, and the falsy side of `&& state`
Missing(p) == ~p.present \/ p.text = NoText

Zero == Num(FALSE, 0, <<>>)

\* `${NWS_API_BASE}/alerts?area=${state}`
AlertsUrl(state) == <<NWS_API_BASE, "/alerts?area=">> \o state

\* `${NWS_API_BASE}/points/${latitude},${longitude}`
PointsUrl(latitude, longitude) ==
    <<NWS_API_BASE, "/points/">> \o latitude \o <<",">> \o longitude

(***************************************************************************)
(* What the caller receives.  status is the HTTP status (0 on the RPC      *)
(* surface); thrown is an exception leaving an RPC handler, or the schema  *)
(* layer refusing the arguments, which the caller gets as an RPC error;    *)
(* a tool's returned content carries no isError flag.                      *)
(***************************************************************************)
Uri(type, state, latitude, longitude) ==
    [type |-> type, state |-> state, latitude |-> latitude,
     longitude |-> longitude]

NoUri == Uri("", NoParam, NoParam, NoParam)

Result(status, thrown, text, doc, uri) ==
    [status |-> status, thrown |-> thrown, text |-> text, doc |-> doc,
     uri |-> uri]

NoResult == Result(0, FALSE, NoText, NoDoc, NoUri)

\* res.json(body)
RestJson(doc) == Result(HttpOk, FALSE, NoText, doc, NoUri)

\* res.status(code).json({ error: text })
RestError(status, text) == Result(status, FALSE, text, NoDoc, NoUri)

\* return { content: [{ type: "text", text }] }
ToolText(text, doc) == Result(0, FALSE, text, doc, NoUri)

\* the declared parameter schema refuses the arguments
ToolInvalidParams == Result(0, TRUE, <<"Invalid arguments">>, NoDoc, NoUri)

\* return { uri, mimeType: "application/json", text: JSON.stringify(data) }
ResourceContents(uri, doc) == Result(0, FALSE, NoText, doc, uri)

\* throw new Error("Failed to retrieve weather data")
ResourceError ==
    Result(0, TRUE, <<"Failed to retrieve weather data">>, NoDoc, NoUri)

(***************************************************************************)
(* Requests.  A request's urls, wires and resps are the fetches its        *)
(* handler has issued and what came back, in order; they are the handler's *)
(* locals (alertsUrl, pointsUrl, pointsData, forecastUrl, ...).            *)
(***************************************************************************)
Req(surface, op, state, latitude, longitude, lat, lon) ==
    [surface |-> surface, op |-> op, state |-> state,
     latitude |-> latitude, longitude |-> longitude, lat |-> lat, lon |-> lon,
     pc |-> "start", urls |-> <<>>, wires |-> <<>>, resps |-> <<>>,
     result |-> NoResult]

\* no request has arrived
Init == reqs = <<>>

\* request r is the next to arrive
CanStart(r) == r = Len(reqs) + 1

\* the handler issues fetch(url) and suspends at the await
Fetching(q, url, pc) == [q EXCEPT !.urls = Append(@, url), !.pc = pc]

\* the handler returns, responds or throws
Finished(q, result) == [q EXCEPT !.result = result, !.pc = "done"]

\* the awaited makeNWSRequest resolves
Resolved(q, w) ==
    [q EXCEPT !.wires = Append(@, w), !.resps = Append(@, MakeNWSRequest(w))]

(***************************************************************************)
(* REST surface.  Nothing inside the handlers' try blocks throws           *)
(* (makeNWSRequest catches every error itself), so the catch blocks at     *)
(* lines 62-64 and 96-98 have no step of their own.                        *)
(***************************************************************************)
\* app.get('/alerts/:state'), up to the await
RestAlertsStart(r, In) ==
    /\ CanStart(r)
    /\ \E region \in In.regions :
         LET q        == Req("REST", "alerts", Given(region), NoParam, NoParam,
                             Zero, Zero)
             state    == ToUpperCase(region)
             alertsUrl == AlertsUrl(state)
         IN  reqs' = Append(reqs, Fetching(q, alertsUrl, "awaitAlerts"))

\* app.get('/alerts/:state'), after the await
RestAlertsDone(r, In) ==
    /\ r \in DOMAIN reqs
    /\ reqs[r].surface = "REST"
    /\ reqs[r].pc = "awaitAlerts"
    /\ \E w \in Upstream(AlertDocs, In.failures) :
         LET q          == Resolved(reqs[r], w)
             alertsData == q.resps[1]
         IN  reqs' = [reqs EXCEPT ![r] =
               IF Falsy(alertsData)
               THEN Finished(q, RestError(HttpServerError,
                                  <<"Failed to retrieve alerts data">>))
               ELSE Finished(q, RestJson(alertsData.doc))]

\* app.get('/forecast'), up to the first await
RestForecastStart(r, In) ==
    /\ CanStart(r)
    /\ \E latitude \in In.latParams, longitude \in In.lonParams :
         LET q == Req("REST", "forecast", NoParam, latitude, longitude,
                      Zero, Zero)
             pointsUrl == PointsUrl(latitude.text, longitude.text)
         IN  reqs' = Append(reqs,
               IF Missing(latitude) \/ Missing(longitude)
               THEN Finished(q, RestError(HttpBadRequest,
                                  <<"Latitude and longitude are required">>))
               ELSE Fetching(q, pointsUrl, "awaitPoints"))

\* app.get('/forecast'), between the two awaits
RestForecastPoints(r, In) ==
    /\ r \in DOMAIN reqs
    /\ reqs[r].surface = "REST"
    /\ reqs[r].pc = "awaitPoints"
    /\ \E w \in Upstream(PointDocs, In.failures) :
         LET q           == Resolved(reqs[r], w)
             pointsData  == q.resps[1]
             forecastUrl == ForecastLocator(pointsData)
         IN  reqs' = [reqs EXCEPT ![r] =
               IF Falsy(pointsData)
               THEN Finished(q, RestError(HttpServerError,
                      <<"Failed to retrieve grid point data for coordinates: ">>
                        \o q.latitude.text \o <<", ">> \o q.longitude.text))
               ELSE IF NoLocator(forecastUrl)
               THEN Finished(q, RestError(HttpServerError,
                                  <<"Failed to get forecast URL">>))
               ELSE Fetching(q, forecastUrl, "awaitForecast")]

\* app.get('/forecast'), after the second await
RestForecastDone(r, In) ==
    /\ r \in DOMAIN reqs
    /\ reqs[r].surface = "REST"
    /\ reqs[r].pc = "awaitForecast"
    /\ \E w \in Upstream(ForecastDocs, In.failures) :
         LET q            == Resolved(reqs[r], w)
             forecastData == q.resps[2]
         IN  reqs' = [reqs EXCEPT ![r] =
               IF Falsy(forecastData)
               THEN Finished(q, RestError(HttpServerError,
                                  <<"Failed to retrieve forecast data">>))
               ELSE Finished(q, RestJson(forecastData.doc))]

(***************************************************************************)
(* RPC resource weather-data.  The handler is taken as called with a uri   *)
(* that new URL(uri) parses; its query parameters are what                 *)
(* url.searchParams.get returns (null is an absent parameter).             *)
(***************************************************************************)
\* server.resource("weather-data"), up to the first await or to the throw
ResourceStart(r, In) ==
    /\ CanStart(r)
    /\ \E uri \in In.uris :
         LET type      == uri.type
             state     == uri.state
             latitude  == uri.latitude
             longitude == uri.longitude
             q == Req("RESOURCE", type, state, latitude, longitude, Zero, Zero)
         IN  reqs' = Append(reqs,
               IF type = "alerts" /\ ~Missing(state)
               THEN Fetching(q, AlertsUrl(ToUpperCase(state.text)),
                             "awaitAlerts")
               ELSE IF type = "forecast" /\ ~Missing(latitude)
                         /\ ~Missing(longitude)
               THEN Fetching(q, PointsUrl(latitude.text, longitude.text),
                             "awaitPoints")
               ELSE Finished(q, ResourceError))

\* the uri the handler was called with
UriOf(q) == Uri(q.op, q.state, q.latitude, q.longitude)

\* server.resource("weather-data"): data is set, then tested and returned
ResourceReturn(q, data) ==
    IF Falsy(data) THEN Finished(q, ResourceError)
    ELSE Finished(q, ResourceContents(UriOf(q), data.doc))

\* server.resource("weather-data"), alerts branch after the await
ResourceAlertsDone(r, In) ==
    /\ r \in DOMAIN reqs
    /\ reqs[r].surface = "RESOURCE"
    /\ reqs[r].pc = "awaitAlerts"
    /\ \E w \in Upstream(AlertDocs, In.failures) :
         LET q == Resolved(reqs[r], w)
         IN  reqs' = [reqs EXCEPT ![r] = ResourceReturn(q, q.resps[1])]

\* server.resource("weather-data"), forecast branch between the awaits
ResourcePoints(r, In) ==
    /\ r \in DOMAIN reqs
    /\ reqs[r].surface = "RESOURCE"
    /\ reqs[r].pc = "awaitPoints"
    /\ \E w \in Upstream(PointDocs, In.failures) :
         LET q          == Resolved(reqs[r], w)
             pointsData == q.resps[1]
         IN  reqs' = [reqs EXCEPT ![r] =
               IF ~NoLocator(ForecastLocator(pointsData))
               THEN Fetching(q, ForecastLocator(pointsData), "awaitForecast")
               ELSE ResourceReturn(q, Null)]

\* server.resource("weather-data"), forecast branch after the second await
ResourceForecastDone(r, In) ==
    /\ r \in DOMAIN reqs
    /\ reqs[r].surface = "RESOURCE"
    /\ reqs[r].pc = "awaitForecast"
    /\ \E w \in Upstream(ForecastDocs, In.failures) :
         LET q == Resolved(reqs[r], w)
         IN  reqs' = [reqs EXCEPT ![r] = ResourceReturn(q, q.resps[2])]

(***************************************************************************)
(* RPC tools.                                                              *)
(***************************************************************************)
\* { state: z.string().length(2) }
StateSchema(state) == Len(state) = StateLen

\* { latitude: z.number().min(-90).max(90),
\*   longitude: z.number().min(-180).max(180) }
CoordinateSchema(latitude, longitude) ==
    /\ NumGeq(latitude, LatMin) /\ NumLeq(latitude, LatMax)
    /\ NumGeq(longitude, LonMin) /\ NumLeq(longitude, LonMax)

\* server.tool("get-alerts"), up to the await
ToolAlertsStart(r, In) ==
    /\ CanStart(r)
    /\ \E state \in In.states :
         LET q         == Req("TOOL", "alerts", Given(state), NoParam, NoParam,
                              Zero, Zero)
             stateCode == ToUpperCase(state)
             alertsUrl == AlertsUrl(stateCode)
         IN  reqs' = Append(reqs,
               IF StateSchema(state)
               THEN Fetching(q, alertsUrl, "awaitAlerts")
               ELSE Finished(q, ToolInvalidParams))

\* server.tool("get-alerts"), after the await
ToolAlertsDone(r, In) ==
    /\ r \in DOMAIN reqs
    /\ reqs[r].surface = "TOOL"
    /\ reqs[r].pc = "awaitAlerts"
    /\ \E w \in Upstream(AlertDocs, In.failures) :
         LET q          == Resolved(reqs[r], w)
             alertsData == q.resps[1]
             stateCode  == ToUpperCase(q.state.text)
         IN  reqs' = [reqs EXCEPT ![r] =
               IF Falsy(alertsData)
               THEN Finished(q, ToolText(<<"Failed to retrieve alerts data">>,
                                         NoDoc))
               ELSE IF NoFeatures(alertsData)
               THEN Finished(q, ToolText(<<"No active alerts for ">>
                                           \o stateCode, NoDoc))
               ELSE Finished(q, ToolText(<<"Active alerts for ">> \o stateCode
                                           \o <<":\n\n">>, alertsData.doc))]

\* server.tool("get-forecast"), up to the first await
ToolForecastStart(r, In) ==
    /\ CanStart(r)
    /\ \E latitude \in In.lats, longitude \in In.lons :
         LET q == Req("TOOL", "forecast", NoParam, NoParam, NoParam,
                      latitude, longitude)
             pointsUrl == PointsUrl(ToFixed(latitude, FixedDigits),
                                    ToFixed(longitude, FixedDigits))
         IN  reqs' = Append(reqs,
               IF CoordinateSchema(latitude, longitude)
               THEN Fetching(q, pointsUrl, "awaitPoints")
               ELSE Finished(q, ToolInvalidParams))

\* `${latitude}, ${longitude}` with numbers
Coordinates(q) == NumToString(q.lat) \o <<", ">> \o NumToString(q.lon)

\* server.tool("get-forecast"), between the two awaits
ToolForecastPoints(r, In) ==
    /\ r \in DOMAIN reqs
    /\ reqs[r].surface = "TOOL"
    /\ reqs[r].pc = "awaitPoints"
    /\ \E w \in Upstream(PointDocs, In.failures) :
         LET q           == Resolved(reqs[r], w)
             pointsData  == q.resps[1]
             forecastUrl == ForecastLocator(pointsData)
         IN  reqs' = [reqs EXCEPT ![r] =
               IF Falsy(pointsData)
               THEN Finished(q, ToolText(
                      <<"Failed to retrieve grid point data for coordinates: ">>
                        \o Coordinates(q)
                        \o <<". This location may not be supported by the NWS API (only US locations are supported).">>,
                      NoDoc))
               ELSE IF NoLocator(forecastUrl)
               THEN Finished(q, ToolText(
                      <<"Failed to get forecast URL from grid point data">>,
                      NoDoc))
               ELSE Fetching(q, forecastUrl, "awaitForecast")]

\* server.tool("get-forecast"), after the second await
ToolForecastDone(r, In) ==
    /\ r \in DOMAIN reqs
    /\ reqs[r].surface = "TOOL"
    /\ reqs[r].pc = "awaitForecast"
    /\ \E w \in Upstream(ForecastDocs, In.failures) :
         LET q            == Resolved(reqs[r], w)
             forecastData == q.resps[2]
         IN  reqs' = [reqs EXCEPT ![r] =
               IF Falsy(forecastData)
               THEN Finished(q, ToolText(<<"Failed to retrieve forecast data">>,
                                         NoDoc))
               ELSE Finished(q, ToolText(<<"Forecast for ">> \o Coordinates(q)
                                           \o <<":\n\n">>, forecastData.doc))]

(***************************************************************************)
(* Input domains.                                                          *)
(***************************************************************************)
Regions == {<<"c", "a">>, <<"C", "a">>, <<"c", "A">>, <<"C", "A">>,
            <<"n", "y">>, <<"N", "Y">>}

LatTexts == {<<"4", "0", ".", "7", "1", "2", "8">>,
             <<"4", "0", ".", "7">>,
             <<"4", "0", ".", "7", "1", "2", "8", "4">>,
             <<"9", "9", "9">>}

LonTexts == {<<"-", "7", "4", ".", "0", "0", "6", "0">>,
             <<"-", "7", "4">>,
             <<"-", "1", "8", "1">>}

Lats == {Num(FALSE, 40, <<"7", "1", "2", "8">>),
         Num(FALSE, 40, <<"7">>),
         Num(FALSE, 40, <<"7", "1", "2", "8", "4">>),
         Num(FALSE, 89, <<"9", "9", "9", "9", "6">>),
         Num(FALSE, 999, <<>>)}

Lons == {Num(TRUE, 74, <<"0", "0", "6">>),
         Num(TRUE, 74, <<>>),
         Num(TRUE, 181, <<>>)}

ParamsOf(texts) == {Given(t) : t \in texts} \cup {NoParam, Given(NoText)}

UrisOf(regions, latParams, lonParams) ==
    {Uri("alerts", s, NoParam, NoParam) : s \in ParamsOf(regions)}
      \cup {Uri("forecast", NoParam, la, lo) : la \in latParams, lo \in lonParams}
      \cup {Uri("other", NoParam, NoParam, NoParam)}

\* every input the claims speak of, for one request at a time
Wide ==
    [regions   |-> Regions \cup {<<"c", "a", "l">>},
     states    |-> Regions \cup {<<"c", "a", "l">>, NoText},
     latParams |-> ParamsOf(LatTexts),
     lonParams |-> ParamsOf(LonTexts),
     lats      |-> Lats,
     lons      |-> Lons,
     uris      |-> UrisOf(Regions, ParamsOf(LatTexts), ParamsOf(LonTexts)),
     failures  |-> FailureKinds]

\* a few inputs, for requests in flight together
Narrow ==
    [regions   |-> {<<"c", "a">>, <<"C", "a">>, <<"C", "A">>},
     states    |-> {<<"c", "a">>, <<"C", "a">>, <<"C", "A">>},
     latParams |-> {Given(<<"4", "0", ".", "7">>)},
     lonParams |-> {Given(<<"-", "7", "4">>)},
     lats      |-> {Num(FALSE, 40, <<"7">>)},
     lons      |-> {Num(TRUE, 74, <<>>)},
     uris      |-> {Uri("alerts", Given(<<"c", "a">>), NoParam, NoParam),
                    Uri("forecast", NoParam, Given(<<"4", "0", ".", "7">>),
                        Given(<<"-", "7", "4">>))},
     failures  |-> {"status"}]

(***************************************************************************)
(* Specifications.                                                         *)
(***************************************************************************)
Step(r, In) ==
    \/ RestAlertsStart(r, In)
    \/ RestAlertsDone(r, In)
    \/ RestForecastStart(r, In)
    \/ RestForecastPoints(r, In)
    \/ RestForecastDone(r, In)
    \/ ResourceStart(r, In)
    \/ ResourceAlertsDone(r, In)
    \/ ResourcePoints(r, In)
    \/ ResourceForecastDone(r, In)
    \/ ToolAlertsStart(r, In)
    \/ ToolAlertsDone(r, In)
    \/ ToolForecastStart(r, In)
    \/ ToolForecastPoints(r, In)
    \/ ToolForecastDone(r, In)

\* one request, from the whole input domain
Next == Step(1, Wide)

Spec == Init /\ [][Next]_vars

\* requests in flight together, interleaved at their awaits
NextConc == \E r \in 1..MaxInFlight : Step(r, Narrow)

SpecConc == Init /\ [][NextConc]_vars

(***************************************************************************)
(* Vocabulary of the properties.                                           *)
(***************************************************************************)
Done(q) == q.pc = "done"

IsForecast(q) == q.op = "forecast"

IsAlerts(q) == q.op = "alerts"

\* position of the first occurrence of c in s, 0 when there is none
IndexOf(s, c) ==
    IF \E i \in 1..Len(s) : s[i] = c
    THEN CHOOSE i \in 1..Len(s) : s[i] = c /\ \A j \in 1..(i - 1) : s[j] # c
    ELSE 0

RECURSIVE StripZeros(_)
StripZeros(ds) ==
    IF ds # <<>> /\ ds[Len(ds)] = "0"
    THEN StripZeros(SubSeq(ds, 1, Len(ds) - 1))
    ELSE ds

\* the number a decimal text denotes
NumberOf(text) ==
    LET neg  == text # <<>> /\ text[1] = "-"
        body == IF neg THEN SubSeq(text, 2, Len(text)) ELSE text
        dot  == IndexOf(body, ".")
        ip   == IF dot = 0 THEN body ELSE SubSeq(body, 1, dot - 1)
        frac == IF dot = 0 THEN <<>> ELSE SubSeq(body, dot + 1, Len(body))
    IN  Num(neg, IntOf(ip), StripZeros(frac))

\* the request names a coordinate
HasCoordinate(q) ==
    /\ IsForecast(q)
    /\ q.surface # "TOOL" => ~Missing(q.latitude) /\ ~Missing(q.longitude)

Latitude(q) ==
    IF q.surface = "TOOL" THEN q.lat ELSE NumberOf(q.latitude.text)

Longitude(q) ==
    IF q.surface = "TOOL" THEN q.lon ELSE NumberOf(q.longitude.text)

InRange(q) ==
    /\ NumGeq(Latitude(q), LatMin) /\ NumLeq(Latitude(q), LatMax)
    /\ NumGeq(Longitude(q), LonMin) /\ NumLeq(Longitude(q), LonMax)

\* some fetch of the request failed
FetchFailed(q) == \E i \in 1..Len(q.wires) : q.wires[i].kind # "ok"

\* the grid lookup came back as a document without properties.forecast
LocatorAbsent(q) ==
    /\ IsForecast(q)
    /\ Len(q.wires) >= 1
    /\ q.wires[1].kind = "ok"
    /\ q.wires[1].doc.forecast = NoText

\* the caller is told its argument was refused
IsInvalidArgument(res) ==
    res.status = HttpBadRequest \/ res = ToolInvalidParams

\* the protocol marks the outcome as a failure
Marked(res) == res.status >= HttpBadRequest \/ res.thrown

FailureTexts ==
    {"Failed to retrieve alerts data",
     "Failed to retrieve grid point data for coordinates: ",
     "Failed to get forecast URL",
     "Failed to get forecast URL from grid point data",
     "Failed to retrieve forecast data",
     "Failed to retrieve weather data"}

\* the outcome says it is a failure: by its mark or, for a tool's text
\* content, by its message; and it carries no document
ExplicitFailure(res) ==
    /\ res.doc = NoDoc
    /\ res.status # HttpOk
    /\ res.text # NoText
    /\ Marked(res) \/ res.text[1] \in FailureTexts

\* the outcome kind a caller reads off the response
Kind(q) ==
    LET res == q.result
    IN  IF q.surface = "REST"
        THEN IF res.status = HttpOk THEN "Success"
             ELSE IF res.status = HttpBadRequest THEN "InvalidArgument"
             ELSE IF res.text = <<"Failed to get forecast URL">>
             THEN "UpstreamShapeMismatch"
             ELSE "UpstreamUnavailable"
        ELSE IF q.surface = "TOOL"
        THEN IF res.thrown THEN "InvalidArgument"
             ELSE IF res.text = <<"Failed to get forecast URL from grid point data">>
             THEN "UpstreamShapeMismatch"
             ELSE IF res.text[1] \in FailureTexts THEN "UpstreamUnavailable"
             ELSE "Success"
        ELSE IF res.thrown THEN "Failure" ELSE "Success"

\* a decimal text with exactly FixedDigits fraction digits
IsFixed(text) ==
    LET dot == IndexOf(text, ".")
    IN  /\ dot > 1
        /\ Len(text) - dot = FixedDigits
        /\ \A i \in (dot + 1)..Len(text) : IsDigit(text[i])
        /\ \A i \in 1..(dot - 1) : IsDigit(text[i]) \/ (i = 1 /\ text[i] = "-")
        /\ IsDigit(text[dot - 1])

\* the latitude and longitude texts of a grid-lookup URL
UrlLatitude(url) == SubSeq(url, 3, IndexOf(url, ",") - 1)

UrlLongitude(url) == SubSeq(url, IndexOf(url, ",") + 1, Len(url))

\* the area text of an alerts URL
UrlArea(url) == SubSeq(url, 3, Len(url))

IsUpper(text) ==
    \A i \in 1..Len(text) : \A j \in 1..Len(LowerChars) : text[i] # LowerChars[j]

\* the same letters, whatever the case
SameLetter(c, d) ==
    \/ c = d
    \/ \E j \in 1..Len(LowerChars) :
         {c, d} = {LowerChars[j], UpperChars[j]}

CaseEquivalent(s, t) ==
    /\ Len(s) = Len(t)
    /\ \A i \in 1..Len(s) : SameLetter(s[i], t[i])

\* a region was supplied and, on the tool, passed the schema
RegionAccepted(q) ==
    /\ IsAlerts(q)
    /\ ~Missing(q.state)
    /\ q.surface = "TOOL" => Len(q.state.text) = StateLen

\* what the caller gets apart from the echo of its own resource uri
Payload(res) == [res EXCEPT !.uri = NoUri]

(***************************************************************************)
(* Properties.                                                             *)
(***************************************************************************)
\* C1: a forecast request, on any surface, whose latitude is outside
\* [-90, 90] or whose longitude is outside [-180, 180] issues no upstream
\* fetch and ends in an InvalidArgument failure.
C1_OutOfRangeRejected ==
    \A r \in DOMAIN reqs :
      LET q == reqs[r]
      IN  HasCoordinate(q) /\ ~InRange(q) =>
            /\ q.urls = <<>>
            /\ Done(q)
            /\ IsInvalidArgument(q.result)

\* C2: a forecast request issues its second fetch only after its grid lookup
\* has returned a document that holds a forecast locator; a failed lookup,
\* or one without a locator, is followed by no further fetch.
C2_ForecastFetchOnlyAfterLocator ==
    \A r \in DOMAIN reqs :
      LET q == reqs[r]
      IN  IsForecast(q) =>
            /\ Len(q.urls) >= 2 =>
                 /\ Len(q.wires) >= 1
                 /\ q.wires[1].kind = "ok"
                 /\ q.wires[1].doc.forecast # NoText
            /\ Len(q.wires) >= 1 /\ (q.wires[1].kind # "ok" \/ LocatorAbsent(q))
                 => Len(q.urls) = 1

\* a grid lookup that returned a document without a locator, and the
\* request ended after that single fetch
C2_Witness ==
    \E r \in DOMAIN reqs :
      /\ LocatorAbsent(reqs[r])
      /\ Done(reqs[r])
      /\ Len(reqs[r].urls) = 1

\* C3: on every surface, the outcome of a forecast request whose grid lookup
\* returned a document without a locator differs from the outcome of a
\* forecast request one of whose fetches failed.
C3_ShapeMismatchDistinct ==
    \A r1, r2 \in DOMAIN reqs :
      LET q1 == reqs[r1]
          q2 == reqs[r2]
      IN  /\ Done(q1) /\ Done(q2)
          /\ IsForecast(q1) /\ IsForecast(q2)
          /\ q1.surface = q2.surface
          /\ LocatorAbsent(q1)
          /\ FetchFailed(q2)
          => q1.result # q2.result

\* C4 (as stated): whenever a fetch failed or the locator was absent, the
\* caller's outcome is marked as a failure: an HTTP error status, or an RPC
\* error.
C4_FailureMarked ==
    \A r \in DOMAIN reqs :
      LET q == reqs[r]
      IN  Done(q) /\ (FetchFailed(q) \/ LocatorAbsent(q)) => Marked(q.result)

\* C4 (amended): whenever a fetch failed or the locator was absent, the
\* caller's outcome is an explicit failure: an HTTP error status on REST, a
\* thrown error on the resource, a failure message as unflagged text content
\* on a tool; it never carries a document or a success message.
C4_FailureExplicit ==
    \A r \in DOMAIN reqs :
      LET q == reqs[r]
      IN  Done(q) /\ (FetchFailed(q) \/ LocatorAbsent(q)) =>
            ExplicitFailure(q.result)

\* a tool's alerts fetch failed and the tool answered with its failure text
C4_Witness ==
    \E r \in DOMAIN reqs :
      /\ Done(reqs[r])
      /\ reqs[r].surface = "TOOL"
      /\ FetchFailed(reqs[r])
      /\ reqs[r].result.text = <<"Failed to retrieve alerts data">>

C6_FourDecimals ==
    \A r \in DOMAIN reqs :
      LET q == reqs[r]
      IN  HasCoordinate(q) /\ InRange(q) =>
            /\ Len(q.urls) >= 1
            /\ IsFixed(UrlLatitude(q.urls[1]))
            /\ IsFixed(UrlLongitude(q.urls[1]))

\* the same operation on the same logical input
SameInput(q1, q2) ==
    /\ q1.op = q2.op
    /\ IsAlerts(q1) =>
         /\ ~Missing(q1.state) /\ ~Missing(q2.state)
         /\ q1.state.text = q2.state.text
    /\ IsForecast(q1) =>
         /\ HasCoordinate(q1) /\ HasCoordinate(q2)
         /\ Latitude(q1) = Latitude(q2)
         /\ Longitude(q1) = Longitude(q2)

\* C7: two requests for the same operation with the same logical input and
\* the same upstream responses, on whichever surfaces, issue the same
\* sequence of upstream URLs and end in the same outcome kind.
C7_SurfacesEquivalent ==
    \A r1, r2 \in DOMAIN reqs :
      LET q1 == reqs[r1]
          q2 == reqs[r2]
      IN  /\ q1.op \in {"alerts", "forecast"}
          /\ SameInput(q1, q2)
          /\ q1.wires = q2.wires
          => /\ q1.urls = q2.urls
             /\ Done(q1) <=> Done(q2)
             /\ Done(q1) => Kind(q1) = Kind(q2)

\* C8: a REST forecast request whose latitude or longitude is absent or
\* empty is answered with HTTP 400 and issues no upstream fetch.
C8_RestMissingCoordinate ==
    \A r \in DOMAIN reqs :
      LET q == reqs[r]
      IN  /\ IsForecast(q)
          /\ q.surface = "REST"
          /\ \E p \in {q.latitude, q.longitude} : ~p.present \/ p.text = NoText
          => /\ q.urls = <<>>
             /\ Done(q)
             /\ q.result.status = HttpBadRequest

\* a REST forecast request with an empty latitude beside a longitude
C8_Witness ==
    \E r \in DOMAIN reqs :
      /\ IsForecast(reqs[r])
      /\ reqs[r].surface = "REST"
      /\ reqs[r].latitude = Given(NoText)
      /\ reqs[r].longitude.text # NoText
      /\ Done(reqs[r])

\* what C9 states of every request but the count of an alerts request's
\* fetches: a forecast request issues at most two fetches, fetches are issued
\* one at a time, every failure is the one value null, and nothing is fetched
\* after a failure
NoRetry(q) ==
    /\ IsForecast(q) => Len(q.urls) <= 2
    /\ Len(q.wires) = Len(q.resps)
    /\ Len(q.resps) <= Len(q.urls)
    /\ Len(q.urls) <= Len(q.resps) + 1
    /\ \A i \in 1..Len(q.wires) :
         q.wires[i].kind # "ok" =>
           /\ q.resps[i] = Null
           /\ Len(q.urls) = i
           /\ Done(q)

\* C9 (as stated): an alerts request issues exactly one upstream fetch, a
\* forecast request at most two, and no fetch follows a failed one.
C9_ExactlyOneAlertsFetch ==
    \A r \in DOMAIN reqs :
      LET q == reqs[r]
      IN  /\ NoRetry(q)
          /\ IsAlerts(q) => Len(q.urls) = 1

\* C9 (amended): an alerts request issues at most one upstream fetch: exactly
\* one when its region is supplied and accepted, none otherwise; a forecast
\* request issues at most two, and no fetch follows a failed one.
C9_NoRetry ==
    \A r \in DOMAIN reqs :
      LET q == reqs[r]
      IN  /\ NoRetry(q)
          /\ IsAlerts(q) => Len(q.urls) <= 1
          /\ RegionAccepted(q) <=> (IsAlerts(q) /\ Len(q.urls) = 1)

\* a forecast request whose second fetch met a non-success status
C9_Witness ==
    \E r \in DOMAIN reqs :
      /\ IsForecast(reqs[r])
      /\ Len(reqs[r].wires) = 2
      /\ reqs[r].wires[2].kind = "status"
      /\ Done(reqs[r])

\* C10: whatever the interleaving, a forecast request fetches the locator its
\* own grid lookup returned, and two requests with the same surface, input
\* and upstream responses have issued the same URLs and stand at the same
\* outcome.
C10_RequestsIndependent ==
    /\ \A r \in DOMAIN reqs :
         LET q == reqs[r]
         IN  IsForecast(q) /\ Len(q.urls) = 2 =>
               q.urls[2] = q.wires[1].doc.forecast
    /\ \A r1, r2 \in DOMAIN reqs :
         LET q1 == reqs[r1]
             q2 == reqs[r2]
         IN  /\ q1.surface = q2.surface
             /\ UriOf(q1) = UriOf(q2)
             /\ q1.lat = q2.lat /\ q1.lon = q2.lon
             /\ q1.wires = q2.wires
             => /\ q1.urls = q2.urls
                /\ q1.pc = q2.pc
                /\ q1.result = q2.result

\* two forecast requests in flight together, each awaiting the document of
\* a different locator
C10_Witness ==
    \E r1, r2 \in DOMAIN reqs :
      /\ reqs[r1].pc = "awaitForecast"
      /\ reqs[r2].pc = "awaitForecast"
      /\ reqs[r1].urls[2] # reqs[r2].urls[2]

====
